---- MODULE Spec2Model ----
(***************************************************************************)
(* Air Conductor: the gesture-to-event stabilisation core.                 *)
(*                                                                         *)
(*   gestures.ts   isFingerExtended, quantizePitch, detectAllFingerGestures*)
(*   music.ts      MusicEngine.playInstrument / releaseInstrument / ...    *)
(*   tempo.ts      estimateBeat                                            *)
(*   particles3d.ts  the host's onFrame callback                           *)
(*                                                                         *)
(* Units.  Landmark coordinates are normalised floats in the source; here  *)
(* they are integers in hundredths (x = 25 stands for 0.25).  Confidence   *)
(* and velocity are integers in thousandths (1000 stands for 1.0).  Note   *)
(* strings are sequences of one-character strings, so that concatenation,  *)
(* the regular expressions of musicallyEnhance and string comparison are   *)
(* modelled by what they do to the characters.                             *)
(***************************************************************************)
EXTENDS Integers, Sequences, FiniteSets, TLC

Null == "null"

(***************************************************************************)
(* Static configuration (gestures.ts)                                      *)
(***************************************************************************)
FINGER_INSTRUMENTS ==
  [ left_thumb  |-> "Drums",   left_index  |-> "Bass",    left_middle  |-> "Piano",
    left_ring   |-> "Guitar",  left_pinky  |-> "Percussion",
    right_thumb |-> "Violin",  right_index |-> "Trumpet", right_middle |-> "Flute",
    right_ring  |-> "Saxophone", right_pinky |-> "Harp" ]

leftFingers  == <<"left_thumb", "left_index", "left_middle", "left_ring", "left_pinky">>
rightFingers == <<"right_thumb", "right_index", "right_middle", "right_ring", "right_pinky">>

Slots == DOMAIN FINGER_INSTRUMENTS
LeftSlots  == {leftFingers[i]  : i \in 1..5}
RightSlots == {rightFingers[i] : i \in 1..5}
Instruments == {FINGER_INSTRUMENTS[s] : s \in Slots}
FingerIdxs == 0..4

\* index into the 21-landmark list (0-based in the source, so +1 on access)
FINGERTIP_INDICES   == <<4, 8, 12, 16, 20>>
FINGER_BASE_INDICES == <<3, 6, 10, 14, 18>>

PENTATONIC_SCALE == << <<"C">>, <<"D">>, <<"E">>, <<"G">>, <<"A">> >>
MAJOR_SCALE      == << <<"C">>, <<"D">>, <<"E">>, <<"F">>, <<"G">>, <<"A">>, <<"B">> >>
BLUES_SCALE      == << <<"C">>, <<"E","b">>, <<"F">>, <<"G","b">>, <<"G">>, <<"B","b">> >>

\* Number-to-string conversion of a small non-negative integer (n + '' in JS)
DigitChars == <<"0", "1", "2", "3", "4", "5", "6", "7", "8", "9">>
NumToStr(n) == IF n < 10 THEN <<DigitChars[n + 1]>>
               ELSE <<DigitChars[(n \div 10) + 1], DigitChars[(n % 10) + 1]>>

Min(a, b) == IF a < b THEN a ELSE b
Max(a, b) == IF a > b THEN a ELSE b

\* getScaleForInstrument: Bass maps n => n + '2' over the pentatonic names
getScaleForInstrument(instrument) ==
  CASE instrument \in {"Drums", "Percussion"} ->
         << <<"C">>, <<"C">>, <<"C">>, <<"C">>, <<"C">> >>
    [] instrument = "Bass" ->
         [i \in 1..5 |-> PENTATONIC_SCALE[i] \o <<"2">>]
    [] instrument \in {"Piano", "Guitar"} -> MAJOR_SCALE
    [] instrument \in {"Violin", "Flute"} -> PENTATONIC_SCALE
    [] instrument \in {"Trumpet", "Saxophone"} -> BLUES_SCALE
    [] instrument = "Harp" ->
         << <<"C">>, <<"D">>, <<"F">>, <<"G">>, <<"A">>, <<"C">>, <<"D">> >>
    [] OTHER -> PENTATONIC_SCALE

baseOctave(instrument) ==
  IF instrument = "Bass" THEN 2
  ELSE IF instrument \in {"Drums", "Percussion"} THEN 3
  ELSE IF instrument \in {"Violin", "Flute", "Trumpet", "Saxophone"} THEN 5
  ELSE 4

\* Math.floor(x * n) for x given in hundredths
FloorMul(x, n) == (x * n) \div 100

\* A slip that rounds to the nearest degree instead of flooring
ScaleIndexRounded(x, len) == Min(len - 1, Max(0, (x * len + 50) \div 100))

\* idx = Math.min(scale.length - 1, Math.max(0, Math.floor(x * scale.length)))
ScaleIndex(x, len) == Min(len - 1, Max(0, FloorMul(x, len)))

\* finalOctave = Math.max(1, Math.min(7, baseOctave + (fingerIndex - 2)))
finalOctave(instrument, fingerIndex) ==
  Max(1, Min(7, baseOctave(instrument) + (fingerIndex - 2)))

\* quantizePitch(x, instrument, fingerIndex): note + finalOctave
quantizePitch(x, instrument, fingerIndex) ==
  LET scale == getScaleForInstrument(instrument)
      idx   == ScaleIndex(x, Len(scale))
  IN  scale[idx + 1] \o NumToStr(finalOctave(instrument, fingerIndex))


(***************************************************************************)
(* Hands and landmarks                                                     *)
(***************************************************************************)
\* A hand is the list of its landmarks, each [x, y] (z is never read by the
\* code modelled here).  null is modelled by the empty list: both fail the
\* test `hand && hand.length >= 21`, and the tracker never delivers a hand
\* with no landmarks.
NoHand == << >>
LANDMARKS == 21

Pt(px, py) == [x |-> px, y |-> py]

\* hand[i] with the source's 0-based index
At(hand, i) == hand[i + 1]

\* floor(1000 * sqrt(d2) / expected), d2 and expected*expected in 1e-4 units,
\* for d2 below expected^2 (above it the ratio is clamped to 1)
RatioTable ==
  [e \in {6, 8} |-> [d2 \in 0..(e * e) |->
      CHOOSE r \in 0..1000 :
         /\ r * r * e * e <= d2 * 1000000
         /\ (r + 1) * (r + 1) * e * e > d2 * 1000000]]

\* extended = confidence > 0.4, the primary activation threshold (thousandths)
EXTENSION_THRESHOLD == 400

\* if (isCurrentlyExtended && extension.confidence > 0.3), the secondary one
STABILITY_THRESHOLD == 300

\* expectedLength = fingerIndex === 0 ? 0.06 : 0.08
expectedLength(fingerIndex) == IF fingerIndex = 0 THEN 6 ELSE 8

\* confidence = Math.min(1, fingerLength / expectedLength), in thousandths
extensionConfidence(tip, base, fingerIndex) ==
  LET d2 == (tip.x - base.x) * (tip.x - base.x) + (tip.y - base.y) * (tip.y - base.y)
      e  == expectedLength(fingerIndex)
  IN  IF d2 >= e * e THEN 1000 ELSE RatioTable[e][d2]

\* isPointingUp: thumb against the wrist (margin 0.1), others against the base (0.05)
isPointingUp(tip, base, wrist, fingerIndex) ==
  IF fingerIndex = 0 THEN tip.y < wrist.y - 10 ELSE tip.y < base.y - 5

\* A slip that trusts the length ratio alone
isFingerExtendedNoDirection(hand, fingerIndex) ==
  LET tip  == At(hand, FINGERTIP_INDICES[fingerIndex + 1])
      base == At(hand, FINGER_BASE_INDICES[fingerIndex + 1])
      confidence == extensionConfidence(tip, base, fingerIndex)
  IN  [extended |-> confidence > 400, confidence |-> confidence]

\* isFingerExtended(hand, fingerIndex): { extended, confidence }
isFingerExtended(hand, fingerIndex) ==
  LET tip  == At(hand, FINGERTIP_INDICES[fingerIndex + 1])
      base == At(hand, FINGER_BASE_INDICES[fingerIndex + 1])
      confidence == extensionConfidence(tip, base, fingerIndex)
      extended == confidence > EXTENSION_THRESHOLD
  IN  [extended |-> extended /\ isPointingUp(tip, base, At(hand, 0), fingerIndex),
       confidence |-> confidence]

(***************************************************************************)
(* detectAllFingerGestures (gestures.ts)                                   *)
(***************************************************************************)
\* note: null of a release event.  No scale yields the empty string, and the
\* host tests the note only for truthiness.
NullNote == << >>

DefaultStability == [consecutiveFrames |-> 0, lastConfidence |-> 0]

\* A detector that keeps one run length for all its slots: the longest
StabilityOfShared(gs, fingerKey) ==
  IF DOMAIN gs = {} THEN DefaultStability
  ELSE gs[CHOOSE k \in DOMAIN gs :
            \A j \in DOMAIN gs : gs[k].consecutiveFrames >= gs[j].consecutiveFrames]

\* state.gestureStability.get(fingerKey) || { consecutiveFrames: 0, lastConfidence: 0 }
StabilityOf(gs, fingerKey) ==
  IF fingerKey \in DOMAIN gs THEN gs[fingerKey] ELSE DefaultStability

\* A counter that stands still, where the code resets it, on a frame that
\* does not qualify
UpdateStabilityNoReset(stability, extension) ==
  IF extension.extended /\ extension.confidence > STABILITY_THRESHOLD
    THEN [consecutiveFrames |-> stability.consecutiveFrames + 1,
          lastConfidence |-> extension.confidence]
    ELSE stability

\* the stability update of one finger (gestures.ts 289-295)
UpdateStability(stability, extension) ==
  IF extension.extended /\ extension.confidence > STABILITY_THRESHOLD
    THEN [consecutiveFrames |-> stability.consecutiveFrames + 1,
          lastConfidence |-> extension.confidence]
    ELSE [consecutiveFrames |-> 0, lastConfidence |-> 0]

\* A slip that asks for a second frame before trusting the gesture
isStableGestureTwoFrames(stability) == stability.consecutiveFrames >= 2

\* isStableGesture = stability.consecutiveFrames >= 1
isStableGesture(stability) == stability.consecutiveFrames >= 1

MapSet(m, k, v) == [j \in (DOMAIN m) \cup {k} |-> IF j = k THEN v ELSE m[j]]
MapDelete(m, k) == [j \in (DOMAIN m) \ {k} |-> m[j]]

\* A slip that reports every activation at full velocity
ActiveEventFullVelocity(fingerKey, note, velocity, confidence) ==
  [finger |-> fingerKey, instrument |-> FINGER_INSTRUMENTS[fingerKey],
   active |-> TRUE, note |-> note, velocity |-> 1000,
   sustained |-> confidence > 400]

ActiveEvent(fingerKey, note, velocity, confidence) ==
  [finger |-> fingerKey, instrument |-> FINGER_INSTRUMENTS[fingerKey],
   active |-> TRUE, note |-> note, velocity |-> velocity,
   sustained |-> confidence > 400]

ReleaseEvent(fingerKey) ==
  [finger |-> fingerKey, instrument |-> FINGER_INSTRUMENTS[fingerKey],
   active |-> FALSE, note |-> NullNote, velocity |-> 0, sustained |-> FALSE]

\* A registry that admits only confident gestures, where the events admit all
SustainOnActiveStrict(sf, fingerKey, wasSustained, confidence, note, velocity) ==
  IF ~wasSustained /\ confidence > 800
    THEN MapSet(sf, fingerKey, [note |-> note, velocity |-> velocity])
    ELSE sf

\* if (!wasSustained && extension.confidence > 0.4) state.sustainedFingers.set(...)
\* (startTime is written here and read nowhere; it is left out of the record)
SustainOnActive(sf, fingerKey, wasSustained, confidence, note, velocity) ==
  IF ~wasSustained /\ confidence > 400
    THEN MapSet(sf, fingerKey, [note |-> note, velocity |-> velocity])
    ELSE sf

\* One iteration of FINGERTIP_INDICES.forEach for a present hand: the state is
\* [sf, gs, ev], the registry, the stability map and the event list so far.
ProcessFinger(st, hand, fingerNames, fingerIdx) ==
  LET fingerKey == fingerNames[fingerIdx + 1]
      tipIndex  == FINGERTIP_INDICES[fingerIdx + 1]
      extension == isFingerExtended(hand, fingerIdx)
      isCurrentlyExtended == extension.extended
      wasSustained == fingerKey \in DOMAIN st.sf
      stability == UpdateStability(StabilityOf(st.gs, fingerKey), extension)
      gs2 == MapSet(st.gs, fingerKey, stability)
      note == quantizePitch(At(hand, tipIndex).x, FINGER_INSTRUMENTS[fingerKey], fingerIdx)
      velocity == Max(300, extension.confidence)
  IN  IF isCurrentlyExtended /\ isStableGesture(stability)
        THEN [sf |-> SustainOnActive(st.sf, fingerKey, wasSustained,
                                     extension.confidence, note, velocity),
              gs |-> gs2,
              ev |-> Append(st.ev, ActiveEvent(fingerKey, note, velocity,
                                               extension.confidence))]
      ELSE IF wasSustained /\ stability.consecutiveFrames < 2
        THEN [sf |-> MapDelete(st.sf, fingerKey),
              gs |-> gs2,
              ev |-> Append(st.ev, ReleaseEvent(fingerKey))]
      ELSE [sf |-> st.sf, gs |-> gs2, ev |-> st.ev]

\* A slip that drops the registry entry without telling the consumers
ReleaseAbsentFingerSilent(st, fingerKey) ==
  IF fingerKey \in DOMAIN st.sf
    THEN [sf |-> MapDelete(st.sf, fingerKey), gs |-> st.gs, ev |-> st.ev]
    ELSE st

\* A reading of "unconditionally": a release event for every slot of the side
ReleaseAbsentFingerUnconditional(st, fingerKey) ==
  [sf |-> MapDelete(st.sf, fingerKey),
   gs |-> st.gs,
   ev |-> Append(st.ev, ReleaseEvent(fingerKey))]

\* One iteration of the forEach of the hand-absent branch
ReleaseAbsentFinger(st, fingerKey) ==
  IF fingerKey \in DOMAIN st.sf
    THEN [sf |-> MapDelete(st.sf, fingerKey),
          gs |-> st.gs,
          ev |-> Append(st.ev, ReleaseEvent(fingerKey))]
    ELSE st

\* One side of detectAllFingerGestures: the five fingers in order.  (The
\* singleton comprehension only names the intermediate state, so that it is
\* computed once.)
RECURSIVE ProcessSideSkipMalformed(_, _, _, _)
RECURSIVE ProcessSide(_, _, _, _)

\* A detector that leaves a side alone when its hand is cut short, and
\* releases only when the hand is null
ProcessSideSkipMalformed(st, hand, fingerNames, fingerIdx) ==
  IF fingerIdx > 4 THEN st
  ELSE CHOOSE out \in
         {ProcessSideSkipMalformed(nx, hand, fingerNames, fingerIdx + 1) :
            nx \in {IF Len(hand) >= LANDMARKS
                      THEN ProcessFinger(st, hand, fingerNames, fingerIdx)
                    ELSE IF hand = NoHand
                      THEN ReleaseAbsentFinger(st, fingerNames[fingerIdx + 1])
                    ELSE st}} : TRUE

ProcessSide(st, hand, fingerNames, fingerIdx) ==
  IF fingerIdx > 4 THEN st
  ELSE CHOOSE out \in
         {ProcessSide(nx, hand, fingerNames, fingerIdx + 1) :
            nx \in {IF Len(hand) >= LANDMARKS
                      THEN ProcessFinger(st, hand, fingerNames, fingerIdx)
                      ELSE ReleaseAbsentFinger(st, fingerNames[fingerIdx + 1])}} : TRUE

\* state.handPositions.leftHeight = leftHand[0].y (only for a usable hand)
TrackHeight(height, hand) ==
  IF Len(hand) >= LANDMARKS THEN At(hand, 0).y ELSE height

\* A detector that walks the right hand before the left
detectAllFingerGesturesRightFirst(leftHand, rightHand, sf, gs) ==
  LET afterRight == ProcessSide([sf |-> sf, gs |-> gs, ev |-> << >>],
                                rightHand, rightFingers, 0)
  IN  ProcessSide(afterRight, leftHand, leftFingers, 0)

\* detectAllFingerGestures(leftHand, rightHand, state): the new registry and
\* stability map and the returned event list, left side first
detectAllFingerGestures(leftHand, rightHand, sf, gs) ==
  LET afterLeft == ProcessSide([sf |-> sf, gs |-> gs, ev |-> << >>],
                               leftHand, leftFingers, 0)
  IN  ProcessSide(afterLeft, rightHand, rightFingers, 0)


(***************************************************************************)
(* MusicEngine (music.ts)                                                  *)
(***************************************************************************)
CHORD_PROGRESSIONS ==
  [ pop       |-> <<"C", "Am", "F", "G", "C", "F", "Am", "G">>,
    jazz      |-> <<"Cmaj7", "A7", "Dm7", "G7", "Em7", "A7", "Dm7", "G7">>,
    blues     |-> <<"C7", "F7", "C7", "C7", "F7", "F7", "C7", "G7">>,
    classical |-> <<"C", "F", "G", "Am", "F", "C", "G", "C">>,
    rock      |-> <<"C", "F", "G", "Am", "F", "C", "Bb", "F">>,
    ambient   |-> <<"Cmaj9", "Fmaj9", "Am7", "G6", "Dm9", "Gmaj7", "Cmaj9", "Fmaj9">> ]

Styles == DOMAIN CHORD_PROGRESSIONS

CHORD_NOTES ==
  [ C     |-> {<<"C">>, <<"E">>, <<"G">>},
    Am    |-> {<<"A">>, <<"C">>, <<"E">>},
    F     |-> {<<"F">>, <<"A">>, <<"C">>},
    G     |-> {<<"G">>, <<"B">>, <<"D">>},
    Cmaj7 |-> {<<"C">>, <<"E">>, <<"G">>, <<"B">>},
    A7    |-> {<<"A">>, <<"C", "#">>, <<"E">>, <<"G">>},
    Dm7   |-> {<<"D">>, <<"F">>, <<"A">>, <<"C">>},
    G7    |-> {<<"G">>, <<"B">>, <<"D">>, <<"F">>},
    C7    |-> {<<"C">>, <<"E">>, <<"G">>, <<"B", "b">>},
    F7    |-> {<<"F">>, <<"A">>, <<"C">>, <<"E", "b">>},
    Em7   |-> {<<"E">>, <<"G">>, <<"B">>, <<"D">>},
    Bb    |-> {<<"B", "b">>, <<"D">>, <<"F">>},
    Cmaj9 |-> {<<"C">>, <<"E">>, <<"G">>, <<"B">>, <<"D">>},
    Fmaj9 |-> {<<"F">>, <<"A">>, <<"C">>, <<"E">>, <<"G">>},
    Am7   |-> {<<"A">>, <<"C">>, <<"E">>, <<"G">>},
    G6    |-> {<<"G">>, <<"B">>, <<"D">>, <<"E">>},
    Dm9   |-> {<<"D">>, <<"F">>, <<"A">>, <<"C">>, <<"E">>},
    Gmaj7 |-> {<<"G">>, <<"B">>, <<"D">>, <<"F", "#">>} ]

SCALES ==
  [ major      |-> << <<"C">>, <<"D">>, <<"E">>, <<"F">>, <<"G">>, <<"A">>, <<"B">> >>,
    minor      |-> << <<"C">>, <<"D">>, <<"E","b">>, <<"F">>, <<"G">>, <<"A","b">>, <<"B","b">> >>,
    pentatonic |-> << <<"C">>, <<"D">>, <<"E">>, <<"G">>, <<"A">> >>,
    blues      |-> << <<"C">>, <<"E","b">>, <<"F">>, <<"G","b">>, <<"G">>, <<"B","b">> >>,
    dorian     |-> << <<"C">>, <<"D">>, <<"E","b">>, <<"F">>, <<"G">>, <<"A">>, <<"B","b">> >>,
    mixolydian |-> << <<"C">>, <<"D">>, <<"E">>, <<"F">>, <<"G">>, <<"A">>, <<"B","b">> >>,
    lydian     |-> << <<"C">>, <<"D">>, <<"E">>, <<"F","#">>, <<"G">>, <<"A">>, <<"B">> >> ]

IsDigit(c) == c \in {DigitChars[i] : i \in 1..10}

\* position of the first digit of a string, 0 when it has none
FirstDigitPos(str) ==
  IF \E i \in 1..Len(str) : IsDigit(str[i])
    THEN CHOOSE i \in 1..Len(str) :
           IsDigit(str[i]) /\ \A j \in 1..(i - 1) : ~IsDigit(str[j])
    ELSE 0

\* note.replace(/\d/, ''): the string without its first digit
RemoveFirstDigit(str) ==
  LET p == FirstDigitPos(str)
  IN  IF p = 0 THEN str
      ELSE [i \in 1..(Len(str) - 1) |-> IF i < p THEN str[i] ELSE str[i + 1]]

\* note.match(/\d/) ? note.match(/\d/)[0] : '4'
FirstDigitOr4(str) ==
  LET p == FirstDigitPos(str) IN IF p = 0 THEN <<"4">> ELSE <<str[p]>>

getCurrentChord(style, chordIndex) == CHORD_PROGRESSIONS[style][chordIndex + 1]

getCurrentScale(style) ==
  CASE style = "jazz"      -> SCALES.dorian
    [] style = "blues"     -> SCALES.blues
    [] style = "ambient"   -> SCALES.lydian
    [] style = "classical" -> SCALES.major
    [] OTHER               -> SCALES.pentatonic

\* currentScale.indexOf(noteName): 0-based, -1 when absent
IndexOf(seq, v) ==
  IF \E i \in 1..Len(seq) : seq[i] = v
    THEN (CHOOSE i \in 1..Len(seq) : seq[i] = v /\ \A j \in 1..(i - 1) : seq[j] # v) - 1
    ELSE -1

ENHANCE_OFFSETS == <<0, 1, -1, 2, -2>>

\* musicallyEnhance(note) under the engine's current style and chord
musicallyEnhance(note, style, chordIndex) ==
  LET chordNotes   == CHORD_NOTES[getCurrentChord(style, chordIndex)]
      currentScale == getCurrentScale(style)
      noteName     == RemoveFirstDigit(note)
      octave       == FirstDigitOr4(note)
      noteIndex    == IndexOf(currentScale, noteName)
      n            == Len(currentScale)
      target(k)    == currentScale[((noteIndex + ENHANCE_OFFSETS[k] + n) % n) + 1]
      hits         == {k \in 1..5 : target(k) \in chordNotes}
  IN  IF noteName \in chordNotes THEN note
      ELSE IF noteIndex # -1 /\ hits # {}
        THEN target(CHOOSE k \in hits : \A j \in hits : k <= j) \o octave
      ELSE note

RHYTHM_INSTRUMENTS == {"Drums", "Bass", "Percussion"}

\* The engine state is [notes, style, chord]: activeNotes (the instruments
\* whose entry is not null, with the note stored), currentStyle and
\* currentChordIndex; log is the list of triggerAttack / triggerRelease calls
\* made on the instruments' synths.  The harmonizer and bassline synths are
\* separate objects that never touch activeNotes and are not modelled.
SynthCall(op, instrument, note) == [op |-> op, instrument |-> instrument, note |-> note]

\* An engine that retriggers on every request
AlreadyPlayingNever(eng, instrument, note) == FALSE

\* if (current && current.note === note) return;
AlreadyPlaying(eng, instrument, note) ==
  instrument \in DOMAIN eng.notes /\ eng.notes[instrument] = note

\* playInstrument(instrument, note, velocity), every instrument has a synth
playInstrument(eng, instrument, note) ==
  LET current == instrument \in DOMAIN eng.notes
      isRhythm == instrument \in RHYTHM_INSTRUMENTS
      enhancedNote == IF isRhythm THEN note
                      ELSE musicallyEnhance(note, eng.style, eng.chord)
      released == IF current
                    THEN Append(eng.log, SynthCall("release", instrument,
                                                   eng.notes[instrument]))
                    ELSE eng.log
  IN  IF AlreadyPlaying(eng, instrument, note) THEN eng
      ELSE [eng EXCEPT
              !.log = Append(released, SynthCall("attack", instrument, enhancedNote)),
              !.notes = MapSet(eng.notes, instrument, enhancedNote)]

\* releaseInstrument(instrument)
releaseInstrument(eng, instrument) ==
  IF instrument \in DOMAIN eng.notes
    THEN [eng EXCEPT
            !.log = Append(eng.log, SynthCall("release", instrument,
                                              eng.notes[instrument])),
            !.notes = MapDelete(eng.notes, instrument)]
    ELSE eng

\* Object.keys(this.instruments): insertion order of createInstruments
INSTRUMENT_ORDER == <<"Piano", "Guitar", "Violin", "Flute", "Bass", "Trumpet",
                      "Saxophone", "Drums", "Percussion", "Harp">>

RECURSIVE ReleaseFrom(_, _)
ReleaseFrom(eng, k) ==
  IF k > Len(INSTRUMENT_ORDER) THEN eng
  ELSE ReleaseFrom(releaseInstrument(eng, INSTRUMENT_ORDER[k]), k + 1)

\* releaseAll()
releaseAll(eng) == ReleaseFrom(eng, 1)

\* setMusicStyle(style): applyStyleEffects releases every note
setMusicStyle(eng, style) ==
  [releaseAll(eng) EXCEPT !.style = style, !.chord = 0]

\* advanceChordProgression(), run by the interval timer when at least two
\* instruments have an active note
advanceChordProgression(eng) ==
  [eng EXCEPT !.chord = (eng.chord + 1) % Len(CHORD_PROGRESSIONS[eng.style])]


(***************************************************************************)
(* Beat estimator (tempo.ts)                                               *)
(***************************************************************************)
\* number | null
None == [has |-> FALSE, v |-> 0]
Some(v) == [has |-> TRUE, v |-> v]

\* JavaScript truthiness of number | null: null and 0 are falsy
Truthy(opt) == opt.has /\ opt.v # 0

RECURSIVE SumSeq(_)
SumSeq(seq) == IF seq = << >> THEN 0 ELSE Head(seq) + SumSeq(Tail(seq))

\* rationals as [num, den]
Ratio(n, d) == [num |-> n, den |-> d]
RatioEq(a, b) == a.num * b.den = b.num * a.den
NoBpm == [isNull |-> TRUE, val |-> Ratio(0, 1)]

\* A mean over the full window size instead of the entries present
MeanIntervalFullWindow(intervals) == Ratio(SumSeq(intervals), 6)

\* avg = intervals.reduce((a,b)=>a+b,0) / intervals.length
MeanInterval(intervals) == Ratio(SumSeq(intervals), Len(intervals))

INTERVAL_WINDOW == 6

\* A window that drops the newest entry instead of the oldest (pop for shift)
PushIntervalKeepOldest(intervals, interval) ==
  LET pushed == Append(intervals, interval)
  IN  IF Len(pushed) > INTERVAL_WINDOW THEN SubSeq(pushed, 1, INTERVAL_WINDOW) ELSE pushed

\* intervals.push(interval); if (intervals.length > 6) intervals.shift()
PushInterval(intervals, interval) ==
  LET pushed == Append(intervals, interval)
  IN  IF Len(pushed) > INTERVAL_WINDOW THEN Tail(pushed) ELSE pushed

\* estimateBeat(hand, now, state) for palm y = hand[0].y: the new state, the
\* returned bpm (60000 / avg as a ratio, or null) and whether a beat fired
estimateBeat(y, t, st) ==
  LET dy == y - st.lastY.v
      direction == IF dy > 0 THEN "down" ELSE "up"
      isBeat == /\ st.lastY.has
                /\ st.lastDirection # Null
                /\ direction # st.lastDirection
                /\ direction = "up"
      timed == isBeat /\ Truthy(st.lastBeatTime)
      intervals == IF timed
                     THEN PushInterval(st.intervals, t - st.lastBeatTime.v)
                     ELSE st.intervals
      avg == MeanInterval(intervals)
  IN  [state |-> [lastY |-> Some(y),
                  lastDirection |-> IF st.lastY.has THEN direction ELSE st.lastDirection,
                  lastBeatTime |-> IF isBeat THEN Some(t) ELSE st.lastBeatTime,
                  intervals |-> intervals],
       bpm |-> IF timed THEN [isNull |-> FALSE, val |-> Ratio(60000 * avg.den, avg.num)]
               ELSE NoBpm,
       fired |-> isBeat]

(***************************************************************************)
(* State                                                                   *)
(***************************************************************************)
VARIABLES
  sustainedFingers,  \* GestureState.sustainedFingers: slot -> [note, velocity]
  gestureStability,  \* GestureState.gestureStability: slot -> [consecutiveFrames, lastConfidence]
  handPositions,     \* GestureState.handPositions: [leftHeight, rightHeight]
  gestures,          \* the event list returned by the last detectAllFingerGestures
  leftIn, rightIn,   \* the hands the last frame assigned to each side
  engine,            \* MusicEngine: [notes, style, chord, log]
  engineOp,          \* the last engine request: [op, repeat]
  lastRequest,       \* instrument -> note last asked for since its last note-off
  q,                 \* the last quantizePitch call: [x, instrument, fingerIndex, idx, note]
  qualified,         \* slots that have had a qualifying frame
  beatState,         \* BeatEstimatorState: [lastY, lastDirection, lastBeatTime, intervals]
  now,               \* performance.now() of the last frame, in ms
  beat,              \* the last estimateBeat call: [fired, bpm]
  feed,              \* what the estimator has been fed: [frames, dt, regular, beats]
  hold,              \* the current left-thumb-only hold seen by the host
  handsIn,           \* the hand list of the last frame callback: [hands, called]
  pending,           \* callbacks suspended at an await: queue of [frame, left, right]
  audio,             \* Tone.getContext().state: "suspended" or "running"
  asyncOp,           \* the last callback step: [kind, frame, newest, stale]
  landmarks,         \* the tracker result of the last loop pass: [raw, variant]
  twin               \* a second GestureState, run beside the first: [slot, sf, gs, ev, left, right]

gestureVars == <<sustainedFingers, gestureStability, handPositions, gestures,
                 leftIn, rightIn, qualified>>
engineVars  == <<engine, engineOp, lastRequest>>
beatVars    == <<beatState, now, beat, feed>>
hostVars    == <<handsIn, pending, audio, asyncOp, landmarks, twin>>
vars == <<gestureVars, engineVars, q, beatVars, hold, hostVars>>

EmptyMap == [k \in {} |-> 0]

\* createGestureState()
InitGesture ==
  /\ sustainedFingers = EmptyMap
  /\ gestureStability = EmptyMap
  /\ handPositions = [leftHeight |-> 50, rightHeight |-> 50]
  /\ gestures = << >>
  /\ leftIn = NoHand
  /\ rightIn = NoHand
  /\ qualified = {}

\* new MusicEngine(): every activeNotes entry null, style 'pop', chord 0
InitEngine ==
  /\ engine = [notes |-> EmptyMap, style |-> "pop", chord |-> 0, log |-> << >>]
  /\ engineOp = [op |-> "new", repeat |-> FALSE]
  /\ lastRequest = EmptyMap

\* no hold in progress: run counts the frames of the hold so far, attacks the
\* triggerAttack calls on the Drums synth during it; ended marks the frame the
\* thumb retracts, with the release calls and release events of that frame
NoHold == [run |-> 0, attacks |-> 0, startOk |-> FALSE, ended |-> FALSE,
           held |-> 0, releases |-> 0, offEvents |-> 0]

\* a fresh BeatEstimatorState, before the first frame
FreshBeatState == [lastY |-> None, lastDirection |-> Null,
                   lastBeatTime |-> None, intervals |-> << >>]

InitBeat ==
  /\ beatState = FreshBeatState
  /\ now = 0
  /\ beat = [fired |-> FALSE, bpm |-> NoBpm]
  /\ feed = [frames |-> 0, dt |-> 0, regular |-> TRUE, beats |-> 0]
  /\ hold = NoHold

\* before the first frame callback: no hand list yet, nothing suspended, the
\* audio context not started (it starts on a user gesture)
NoAsyncOp == [kind |-> "none", frame |-> 0, newest |-> 0, stale |-> FALSE]

\* a second createGestureState(), watched for the slot named
TwinOf(s) == [slot |-> s, sf |-> EmptyMap, gs |-> EmptyMap, ev |-> << >>,
              left |-> NoHand, right |-> NoHand]
NoTwin == TwinOf("left_thumb")

\* no tracker result yet
NoLandmarks == [raw |-> << >>, variant |-> "strict"]

InitCallbacks ==
  /\ handsIn = [hands |-> << >>, called |-> FALSE]
  /\ pending = << >>
  /\ audio = "suspended"
  /\ asyncOp = NoAsyncOp
  /\ landmarks = NoLandmarks
  /\ twin = NoTwin

(***************************************************************************)
(* The pitch quantizer on its own                                          *)
(***************************************************************************)
\* positions fed to the quantizer, in hundredths
QuantX == {0, 20, 25, 50, 60, 75, 99, 100}

QuantizeInput(x, instrument, fingerIndex) ==
  [x |-> x, instrument |-> instrument, fingerIndex |-> fingerIndex,
   called |-> FALSE, idx |-> 0, note |-> << >>]

QuantizeInputs ==
  {QuantizeInput(x, i, f) : x \in QuantX, i \in Instruments, f \in FingerIdxs}

InitQuantize ==
  /\ InitGesture /\ InitEngine /\ InitBeat /\ InitCallbacks
  /\ q \in QuantizeInputs

\* the caller picks the next position, instrument and finger
QuantizeFeed ==
  /\ q.called
  /\ q' \in QuantizeInputs
  /\ UNCHANGED <<gestureVars, engineVars, beatVars, hold, hostVars>>

\* quantizePitch(q.x, q.instrument, q.fingerIndex)
QuantizeCall ==
  /\ ~q.called
  /\ q' = [q EXCEPT
             !.called = TRUE,
             !.idx = ScaleIndex(q.x, Len(getScaleForInstrument(q.instrument))),
             !.note = quantizePitch(q.x, q.instrument, q.fingerIndex)]
  /\ UNCHANGED <<gestureVars, engineVars, beatVars, hold, hostVars>>

NextQuantize == QuantizeFeed \/ QuantizeCall

SpecQuantize == InitQuantize /\ [][NextQuantize]_vars

scaleLength(instrument) == Len(getScaleForInstrument(instrument))

\* C6: for every x in [0,1], every instrument and every finger index, the scale
\* index chosen by quantizePitch is floor(x * scaleLength) clamped to
\* [0, scaleLength - 1], and so lies within the scale.
C6_QuantizationRange ==
  LET n  == scaleLength(q.instrument)
      fl == (q.x * n) \div 100
  IN  q.called =>
        /\ q.idx \in 0..(n - 1)
        /\ q.idx = (IF fl > n - 1 THEN n - 1 ELSE IF fl < 0 THEN 0 ELSE fl)

\* the clamp is exercised: x = 1.0 on a seven-note scale
C6_Witness ==
  /\ q.called
  /\ q.x = 100 /\ q.instrument = "Harp" /\ q.fingerIndex = 4
  /\ q.idx = 6

PitchLetters == {"A", "B", "C", "D", "E", "F", "G"}
Accidentals  == {"b", "#"}
OctaveDigits == {"1", "2", "3", "4", "5", "6", "7"}

\* a pitch-class name (letter, optional accidental) followed by one octave digit
IsValidNote(n) ==
  /\ Len(n) \in {2, 3}
  /\ n[1] \in PitchLetters
  /\ Len(n) = 3 => n[2] \in Accidentals
  /\ n[Len(n)] \in OctaveDigits

\* C7: quantizePitch always returns one pitch-class name followed by exactly one
\* octave digit in 1..7.
C7_ValidNoteString == q.called => IsValidNote(q.note)


(***************************************************************************)
(* Hand poses fed to the detector                                          *)
(***************************************************************************)
\* A finger pose is [kind, x]: x is the fingertip's horizontal position.
\*   curl    tip on the base joint                    (confidence 0)
\*   up      tip 0.08 above the base                  (confidence 1, raised)
\*   half    tip 0.06 (thumb 0.04) above the base     (confidence < 1, raised)
\*   weak    tip 0.02 above the base                  (confidence below 0.4)
\*   spread  tip 0.08 beside the base, same height    (confidence 1, not raised)
\* The base joints sit 0.2 above the wrist.
FP(kind, x) == [kind |-> kind, x |-> x]

BaseOf(wrist, fp) ==
  IF fp.kind = "spread"
    THEN Pt(IF fp.x >= 8 THEN fp.x - 8 ELSE fp.x + 8, wrist.y - 20)
    ELSE Pt(fp.x, wrist.y - 20)

TipOf(wrist, fp, fingerIdx) ==
  CASE fp.kind = "curl"   -> Pt(fp.x, wrist.y - 20)
    [] fp.kind = "up"     -> Pt(fp.x, wrist.y - 28)
    [] fp.kind = "half"   -> Pt(fp.x, wrist.y - (IF fingerIdx = 0 THEN 24 ELSE 26))
    [] fp.kind = "weak"   -> Pt(fp.x, wrist.y - 22)
    [] fp.kind = "spread" -> Pt(fp.x, wrist.y - 20)

\* the 21 landmarks of a hand with the given wrist and five finger poses
MakeHand(wrist, fps) ==
  [i \in 1..LANDMARKS |->
     IF \E f \in FingerIdxs : FINGERTIP_INDICES[f + 1] = i - 1
       THEN LET f == CHOOSE f \in FingerIdxs : FINGERTIP_INDICES[f + 1] = i - 1
            IN  TipOf(wrist, fps[f + 1], f)
     ELSE IF \E f \in FingerIdxs : FINGER_BASE_INDICES[f + 1] = i - 1
       THEN LET f == CHOOSE f \in FingerIdxs : FINGER_BASE_INDICES[f + 1] = i - 1
            IN  BaseOf(wrist, fps[f + 1])
     ELSE wrist]

Curl == FP("curl", 50)
Fist        == <<Curl, Curl, Curl, Curl, Curl>>
SpreadOut   == <<FP("spread", 10), FP("spread", 30), FP("spread", 50),
                 FP("spread", 70), FP("spread", 90)>>
ThumbUp     == <<FP("up", 50), Curl, Curl, Curl, Curl>>
ThumbWeak   == <<FP("weak", 50), Curl, Curl, Curl, Curl>>
IndexLow    == <<Curl, FP("up", 0), Curl, Curl, Curl>>
IndexHigh   == <<Curl, FP("up", 100), Curl, Curl, Curl>>
MiddleHalf  == <<Curl, Curl, FP("half", 50), Curl, Curl>>
Chord       == <<FP("up", 0), FP("up", 25), FP("up", 50), FP("up", 75), FP("up", 100)>>
ChordMirror == <<FP("up", 100), FP("up", 75), FP("up", 50), FP("up", 25), FP("up", 0)>>

DetectWrist == Pt(50, 80)

LeftPoses  == {Fist, SpreadOut, ThumbWeak, IndexLow, IndexHigh}
RightPoses == {Fist, MiddleHalf, Chord, ChordMirror}

\* a hand cut short by the tracker (fewer than 21 landmarks)
ShortHand == SubSeq(MakeHand(DetectWrist, Chord), 1, 10)

\* a hand that lacks only its last landmark
ShortRight == SubSeq(MakeHand(DetectWrist, Chord), 1, 20)

LeftInputs  == {NoHand, ShortHand} \cup {MakeHand(DetectWrist, p) : p \in LeftPoses}
RightInputs == {NoHand, ShortRight} \cup {MakeHand(DetectWrist, p) : p \in RightPoses}

HandPresent(hand) == Len(hand) >= LANDMARKS

SlotsOf(side)   == IF side = "left" THEN LeftSlots ELSE RightSlots
SlotIndex(s) == CHOOSE f \in FingerIdxs : leftFingers[f + 1] = s \/ rightFingers[f + 1] = s

\* the raw extension result of slot s in a frame of hands l, r (absent: none)
ExtensionOf(s, l, r) ==
  LET hand == IF s \in LeftSlots THEN l ELSE r
  IN  IF HandPresent(hand) THEN isFingerExtended(hand, SlotIndex(s))
      ELSE [extended |-> FALSE, confidence |-> 0]

\* A qualifying frame of slot s, stated on the landmarks: the hand is present,
\* the tip is raised and the length ratio exceeds both thresholds
Qualifies(s, l, r) ==
  LET hand == IF s \in LeftSlots THEN l ELSE r
      f    == SlotIndex(s)
  IN  /\ HandPresent(hand)
      /\ LET tip  == At(hand, FINGERTIP_INDICES[f + 1])
             base == At(hand, FINGER_BASE_INDICES[f + 1])
         IN  /\ isPointingUp(tip, base, At(hand, 0), f)
             /\ extensionConfidence(tip, base, f) > 400
             /\ extensionConfidence(tip, base, f) > 300

(***************************************************************************)
(* detectAllFingerGestures called frame after frame                        *)
(***************************************************************************)
\* longest run of consecutive qualifying frames explored
MaxRun == 2

\* One call detectAllFingerGestures(l, r, state), with the observers' records
DetectStep(l, r) ==
  \E res \in {detectAllFingerGestures(l, r, sustainedFingers, gestureStability)} :
      /\ \A s \in DOMAIN res.gs : res.gs[s].consecutiveFrames <= MaxRun
      /\ sustainedFingers' = res.sf
      /\ gestureStability' = res.gs
      /\ handPositions' =
           [leftHeight  |-> TrackHeight(handPositions.leftHeight, l),
            rightHeight |-> TrackHeight(handPositions.rightHeight, r)]
      /\ gestures' = res.ev
      /\ leftIn' = l
      /\ rightIn' = r
      /\ qualified' = qualified \cup {s \in Slots : Qualifies(s, l, r)}

DetectFrame ==
  /\ \E l \in LeftInputs, r \in RightInputs : DetectStep(l, r)
  /\ UNCHANGED <<engineVars, q, beatVars, hold, hostVars>>

InitDetect == InitGesture /\ InitEngine /\ InitBeat /\ InitCallbacks /\ q = QuantizeInput(0, "Piano", 0)

NextDetect == DetectFrame

SpecDetect == InitDetect /\ [][NextDetect]_vars

TypeDetect ==
  /\ DOMAIN sustainedFingers \subseteq Slots
  /\ DOMAIN gestureStability \subseteq Slots
  /\ \A i \in 1..Len(gestures) : gestures[i].finger \in Slots


(***************************************************************************)
(* Properties of detectAllFingerGestures                                   *)
(***************************************************************************)
InputOf(side) == IF side = "left" THEN leftIn ELSE rightIn

ReleasesFor(evs, s) == {i \in 1..Len(evs) : evs[i].finger = s /\ ~evs[i].active}
ActivesFor(evs, s)  == {i \in 1..Len(evs) : evs[i].finger = s /\ evs[i].active}
HasActive(evs) == \E i \in 1..Len(evs) : evs[i].active

\* C2: whenever a frame is processed in which one side's hand is absent, every
\* slot of that side that held a Sustained Note gets exactly one active=false
\* event in that frame's list, and afterwards no slot of that side is in the
\* registry.
C2_ReleaseOnLoss ==
  [][ \A side \in {"left", "right"} :
        ~HandPresent(InputOf(side)') =>
          \A s \in SlotsOf(side) :
            /\ s \in DOMAIN sustainedFingers =>
                 Cardinality(ReleasesFor(gestures', s)) = 1
            /\ s \notin DOMAIN sustainedFingers' ]_vars

\* the right hand vanished while all five of its slots were held
C2_Witness ==
  /\ rightIn = NoHand
  /\ \A s \in RightSlots : Cardinality(ReleasesFor(gestures, s)) = 1
  /\ DOMAIN sustainedFingers \cap RightSlots = {}

C5_NoActivationWithoutRun ==
  \A s \in Slots \ qualified :
    /\ s \notin DOMAIN sustainedFingers
    /\ \A i \in 1..Len(gestures) : gestures[i].finger # s

\* a finger whose confidence is above the primary threshold in this frame, was
\* tracked before, and has still never qualified (spread, not raised)
C5_Witness ==
  /\ "left_middle" \notin qualified
  /\ HandPresent(leftIn)
  /\ ExtensionOf("left_middle", leftIn, rightIn).confidence > 400
  /\ "left_middle" \in DOMAIN gestureStability
  /\ "left_index" \in qualified

TipX(hand, f) == At(hand, FINGERTIP_INDICES[f + 1]).x

\* the notes a slot's instrument can sound in the register of its finger
ScaleNotes(s) ==
  LET scale == getScaleForInstrument(FINGER_INSTRUMENTS[s])
  IN  {scale[k] \o <<d>> : k \in 1..Len(scale), d \in OctaveDigits}

OctaveOfNote(n) == n[Len(n)]

FiveFingerChord ==
  /\ HandPresent(rightIn)
  /\ \A f \in FingerIdxs :
       /\ Qualifies(rightFingers[f + 1], leftIn, rightIn)
       /\ TipX(rightIn, f) = 25 * f

RightEvents == SelectSeq(gestures, LAMBDA e : e.finger \in RightSlots)

\* C8: when all five right-hand fingers meet the activation criteria in one
\* frame at x = 0, 0.25, 0.5, 0.75, 1.0, the frame's list has exactly five
\* active=true events, one per right-hand slot, each note from the scale of
\* the slot's instrument, and the thumb's octave differs from the pinky's.
C8_FiveFingerChord ==
  FiveFingerChord =>
    /\ Len(RightEvents) = 5
    /\ \A f \in FingerIdxs :
         /\ RightEvents[f + 1].finger = rightFingers[f + 1]
         /\ RightEvents[f + 1].active
         /\ RightEvents[f + 1].note \in ScaleNotes(rightFingers[f + 1])
    /\ OctaveOfNote(RightEvents[1].note) # OctaveOfNote(RightEvents[5].note)

C8_Witness ==
  /\ FiveFingerChord
  /\ Len(RightEvents) = 5
  /\ RightEvents[1].note = <<"C", "3">>
  /\ RightEvents[5].note = <<"D", "6">>

\* C10: when a slot already holds a Sustained Note and, with the finger still
\* extended, the quantized pitch changes, the registry record is replaced:
\* after the frame the registry's note for the slot is the note of the active
\* event of that frame.
C10_MonophonicReplacement ==
  [][ \A s \in DOMAIN sustainedFingers :
        \A i \in ActivesFor(gestures', s) :
          gestures'[i].note # sustainedFingers[s].note =>
            /\ s \in DOMAIN sustainedFingers'
            /\ sustainedFingers'[s].note = gestures'[i].note ]_vars

\* C12: a release event is emitted only for a slot that holds a Sustained Note
\* at that moment, at most once per frame, and takes the slot out of the
\* registry; a slot enters the registry only in a frame with an active=true
\* event for it (so two releases of a slot always have an active event
\* between them); and no event is emitted for a slot whose registry state did
\* not change in the frame.
C12_OneEventPerTransition ==
  [][ \A s \in Slots :
        /\ ReleasesFor(gestures', s) # {} =>
             /\ s \in DOMAIN sustainedFingers
             /\ s \notin DOMAIN sustainedFingers'
             /\ Cardinality(ReleasesFor(gestures', s)) = 1
        /\ (s \notin DOMAIN sustainedFingers /\ s \in DOMAIN sustainedFingers') =>
             ActivesFor(gestures', s) # {}
        /\ ((s \in DOMAIN sustainedFingers) = (s \in DOMAIN sustainedFingers')) =>
             \A i \in 1..Len(gestures') : gestures'[i].finger # s ]_vars

\* C17: after any frame in which a side's hand is absent, consecutiveFrames
\* of each of that side's five slots is 0.
C17_StabilityZeroedOnLoss ==
  \A side \in {"left", "right"} :
    ~HandPresent(InputOf(side)) =>
      \A s \in SlotsOf(side) :
        StabilityOf(gestureStability, s).consecutiveFrames = 0

Malformed(hand) == hand # NoHand /\ Len(hand) < LANDMARKS

HeightOf(hp, side) == IF side = "left" THEN hp.leftHeight ELSE hp.rightHeight

\* C19: a hand with fewer than 21 landmarks is handled like a null hand for
\* its side: no slot of the side gets an active event, the stability entries
\* of the side and its tracked height are left as they were, every sustained
\* slot of the side is released with one release event and no other slot of
\* the side gets an event, and the call returns a result.
C19_MalformedAsAbsent ==
  [][ \A side \in {"left", "right"} :
        Malformed(InputOf(side)') =>
          /\ HeightOf(handPositions', side) = HeightOf(handPositions, side)
          /\ \A s \in SlotsOf(side) :
               /\ ActivesFor(gestures', s) = {}
               /\ (s \in DOMAIN gestureStability') = (s \in DOMAIN gestureStability)
               /\ s \in DOMAIN gestureStability =>
                    gestureStability'[s] = gestureStability[s]
               /\ s \notin DOMAIN sustainedFingers'
               /\ Cardinality(ReleasesFor(gestures', s)) =
                    (IF s \in DOMAIN sustainedFingers THEN 1 ELSE 0) ]_vars

\* the left hand arrived cut short while left_index was held: the slot is
\* released and its run length is still the one of the last full frame
C19_Witness ==
  /\ Malformed(leftIn)
  /\ Cardinality(ReleasesFor(gestures, "left_index")) = 1
  /\ "left_index" \notin DOMAIN sustainedFingers
  /\ StabilityOf(gestureStability, "left_index").consecutiveFrames >= 1

\* the hand of the side of slot s among the hands l, r
HandOf(s, l, r) == IF s \in LeftSlots THEN l ELSE r

\* C23: on every frame where a slot's hand is present, the slot's
\* consecutiveFrames goes up by exactly 1 if the finger is extended and its
\* confidence exceeds the secondary threshold, and is set to 0 otherwise; the
\* secondary threshold is at least the primary activation threshold; the
\* counter is never negative.
C23_StabilityCounterRule ==
  [][ \A s \in Slots :
        HandPresent(HandOf(s, leftIn', rightIn')) =>
          LET ext == ExtensionOf(s, leftIn', rightIn')
              was == StabilityOf(gestureStability, s).consecutiveFrames
              is  == StabilityOf(gestureStability', s).consecutiveFrames
          IN  /\ is = (IF ext.extended /\ ext.confidence > STABILITY_THRESHOLD
                         THEN was + 1 ELSE 0)
              /\ is >= 0
              /\ STABILITY_THRESHOLD >= EXTENSION_THRESHOLD ]_vars

\* C24: a held slot is not released by a single non-qualifying frame: when a
\* slot that holds a Sustained Note and qualified in the last frame of its
\* hand meets one frame, hand present, in which it does not qualify, that
\* frame emits no release for it and leaves it in the registry.
C24_StickyRelease ==
  [][ \A s \in DOMAIN sustainedFingers :
        ( /\ StabilityOf(gestureStability, s).consecutiveFrames >= 1
          /\ HandPresent(HandOf(s, leftIn', rightIn'))
          /\ ~Qualifies(s, leftIn', rightIn') ) =>
            /\ ReleasesFor(gestures', s) = {}
            /\ s \in DOMAIN sustainedFingers' ]_vars

\* C25: when a slot holds a Sustained Note and a frame is processed in which
\* its hand is present and its finger does not meet the extension criteria,
\* that frame's list has the slot's release event and the slot is out of the
\* registry after that same frame, whatever run length it had.
C25_ReleaseSameFrame ==
  [][ \A s \in DOMAIN sustainedFingers :
        ( /\ HandPresent(HandOf(s, leftIn', rightIn'))
          /\ ~ExtensionOf(s, leftIn', rightIn').extended ) =>
            /\ Cardinality(ReleasesFor(gestures', s)) = 1
            /\ ActivesFor(gestures', s) = {}
            /\ s \notin DOMAIN sustainedFingers' ]_vars

\* right_thumb was held and let go with the hand still in view
C25_Witness ==
  /\ HandPresent(rightIn)
  /\ "right_thumb" \in qualified
  /\ ~ExtensionOf("right_thumb", leftIn, rightIn).extended
  /\ Cardinality(ReleasesFor(gestures, "right_thumb")) = 1
  /\ "right_thumb" \notin DOMAIN sustainedFingers
  /\ StabilityOf(gestureStability, "right_thumb").consecutiveFrames = 0

\* C28: after every call the slots in sustainedFingers are exactly the slots
\* for which that call emitted an active=true event, and the registry holds
\* no slot whose finger was not extended in the frame just processed.
C28_RegistryMatchesEvents ==
  /\ DOMAIN sustainedFingers = {s \in Slots : ActivesFor(gestures, s) # {}}
  /\ \A s \in DOMAIN sustainedFingers :
       ExtensionOf(s, leftIn, rightIn).extended

\* a call that kept a half-raised right middle finger sounding and released
\* a left-hand slot
C28_Witness ==
  /\ "right_middle" \in DOMAIN sustainedFingers
  /\ ExtensionOf("right_middle", leftIn, rightIn).confidence < 1000
  /\ \E s \in LeftSlots : ReleasesFor(gestures, s) # {}
  /\ \E s \in LeftSlots : s \in DOMAIN sustainedFingers

\* C30: every event names one of the ten slots with the slot's instrument
\* and is either an activation (active, a note, velocity equal to the
\* frame's confidence and in (0.4, 1], sustained) or a release (not active,
\* note null, velocity 0, not sustained).
C30_EventWellFormed ==
  \A i \in 1..Len(gestures) :
    LET e == gestures[i]
    IN  /\ e.finger \in Slots
        /\ e.instrument = FINGER_INSTRUMENTS[e.finger]
        /\ \/ /\ e.active
              /\ e.note # NullNote
              /\ e.velocity = ExtensionOf(e.finger, leftIn, rightIn).confidence
              /\ e.velocity > 400 /\ e.velocity <= 1000
              /\ e.sustained
           \/ /\ ~e.active
              /\ e.note = NullNote
              /\ e.velocity = 0
              /\ ~e.sustained

\* one list with an activation below full confidence, one at full
\* confidence and a release
C30_Witness ==
  /\ \E i \in 1..Len(gestures) : gestures[i].active /\ gestures[i].velocity = 750
  /\ \E i \in 1..Len(gestures) : gestures[i].active /\ gestures[i].velocity = 1000
  /\ \E i \in 1..Len(gestures) : ~gestures[i].active

\* the place of a slot in the order left thumb..pinky, right thumb..pinky
SlotRank(s) == IF s \in LeftSlots THEN SlotIndex(s) ELSE 5 + SlotIndex(s)

\* C21: in every returned event list the events of left-hand slots come
\* before those of right-hand slots, within a side they are in finger order
\* thumb, index, middle, ring, pinky, and no slot has more than one event.
C21_EventOrder ==
  \A i, j \in 1..Len(gestures) :
    i < j => SlotRank(gestures[i].finger) < SlotRank(gestures[j].finger)

\* a list with a left-hand event followed by several right-hand events, a
\* release and an activation among them
C21_Witness ==
  /\ Len(gestures) >= 3
  /\ gestures[1].finger \in LeftSlots
  /\ gestures[2].finger \in RightSlots
  /\ \E i, j \in 1..Len(gestures) : gestures[i].active /\ ~gestures[j].active


(***************************************************************************)
(* The registers of the five fingers of a hand (quantizePitch)             *)
(***************************************************************************)
\* the octave a note string ends with
OctaveNumber(n) == CHOOSE d \in 0..9 : NumToStr(d) = <<n[Len(n)]>>

\* the slot the last quantizePitch call was made for, if it was made with a
\* slot's own instrument and finger index
QuantizedSlots ==
  {s \in Slots : FINGER_INSTRUMENTS[s] = q.instrument /\ SlotIndex(s) = q.fingerIndex}

\* C26: the octaves quantizePitch gives the five slots of a hand, each with
\* its bound instrument and finger index, are pairwise distinct and do not
\* decrease from thumb to pinky, at whatever positions the fingers are.
C26_DistinctRegisters ==
  q.called =>
    \A s \in QuantizedSlots :
      \A t \in (IF s \in LeftSlots THEN LeftSlots ELSE RightSlots) \ {s} :
        \A x \in QuantX :
          LET os == OctaveNumber(q.note)
              ot == OctaveNumber(quantizePitch(x, FINGER_INSTRUMENTS[t], SlotIndex(t)))
          IN  /\ os # ot
              /\ SlotIndex(s) < SlotIndex(t) => os <= ot


(***************************************************************************)
(* The MusicEngine driven request by request                               *)
(***************************************************************************)
\* most instruments sounding at once
MaxSounding == 2

InstrumentSlot(i) == CHOOSE s \in Slots : FINGER_INSTRUMENTS[s] = i

\* notes the detector can ask an instrument to play
RequestX == {0, 25}
RequestNotes(i) == {quantizePitch(x, i, SlotIndex(InstrumentSlot(i))) : x \in RequestX}

ClearLog(eng) == [eng EXCEPT !.log = << >>]

\* engine.playInstrument(i, n, velocity)
EnginePlay(i, n) ==
  /\ i \in DOMAIN engine.notes \/ Cardinality(DOMAIN engine.notes) < MaxSounding
  /\ engine' = playInstrument(ClearLog(engine), i, n)
  /\ engineOp' = [op |-> "play",
                  repeat |-> i \in DOMAIN lastRequest /\ lastRequest[i] = n]
  /\ lastRequest' = MapSet(lastRequest, i, n)

\* engine.releaseInstrument(i)
EngineRelease(i) ==
  /\ engine' = releaseInstrument(ClearLog(engine), i)
  /\ engineOp' = [op |-> "release", repeat |-> FALSE]
  /\ lastRequest' = MapDelete(lastRequest, i)

\* engine.releaseAll()
EngineReleaseAll ==
  /\ engine' = releaseAll(ClearLog(engine))
  /\ engineOp' = [op |-> "releaseAll", repeat |-> FALSE]
  /\ lastRequest' = EmptyMap

\* engine.setMusicStyle(style), from the style selector
EngineSetStyle(style) ==
  /\ engine' = setMusicStyle(ClearLog(engine), style)
  /\ engineOp' = [op |-> "setMusicStyle", repeat |-> FALSE]
  /\ lastRequest' = EmptyMap

\* the chord timer of startEnhancedMusicAI
EngineChordTimer ==
  /\ Cardinality(DOMAIN engine.notes) >= 2
  /\ engine' = advanceChordProgression(ClearLog(engine))
  /\ engineOp' = [op |-> "chordTimer", repeat |-> FALSE]
  /\ UNCHANGED lastRequest

InitEngineSpec == InitGesture /\ InitEngine /\ InitBeat /\ InitCallbacks /\ q = QuantizeInput(0, "Piano", 0)

NextEngine ==
  \/ \E i \in Instruments : \E n \in RequestNotes(i) :
        EnginePlay(i, n) /\ UNCHANGED <<gestureVars, q, beatVars, hold, hostVars>>
  \/ \E i \in Instruments : EngineRelease(i) /\ UNCHANGED <<gestureVars, q, beatVars, hold, hostVars>>
  \/ EngineReleaseAll /\ UNCHANGED <<gestureVars, q, beatVars, hold, hostVars>>
  \/ \E style \in Styles : EngineSetStyle(style) /\ UNCHANGED <<gestureVars, q, beatVars, hold, hostVars>>
  \/ EngineChordTimer /\ UNCHANGED <<gestureVars, q, beatVars, hold, hostVars>>

SpecEngine == InitEngineSpec /\ [][NextEngine]_vars

\* C1: two consecutive note-on requests for the same instrument with the same
\* note and no note-off between them start the note once: the second request
\* triggers no release and no attack.
C1_IdempotentSustain ==
  (engineOp.op = "play" /\ engineOp.repeat) => engine.log = << >>


(***************************************************************************)
(* The beat estimator fed frame by frame                                   *)
(***************************************************************************)
\* frames fed to the estimator
MaxBeatFrames == 10

\* wrist heights (hundredths) and frame intervals (ms) fed to the estimator
BeatYs  == {40, 60}
BeatDts == {250, 500}

\* the feed stays regular while y strictly alternates and every frame
\* interval is the same
FeedAfter(y, dt, res) ==
  [frames  |-> feed.frames + 1,
   dt      |-> IF feed.frames = 0 THEN dt ELSE feed.dt,
   regular |-> /\ feed.regular
               /\ feed.frames > 0 => (dt = feed.dt /\ y # beatState.lastY.v),
   beats   |-> feed.beats + (IF res.fired THEN 1 ELSE 0)]

\* one frame of the tracked hand: estimateBeat(hand, now, beatState)
BeatStep(y, dt) ==
  \E res \in {estimateBeat(y, now + dt, beatState)} :
    /\ feed.frames < MaxBeatFrames
    /\ now' = now + dt
    /\ beatState' = res.state
    /\ beat' = [fired |-> res.fired, bpm |-> res.bpm]
    /\ feed' = FeedAfter(y, dt, res)

BeatFrame ==
  /\ \E y \in BeatYs, dt \in BeatDts : BeatStep(y, dt)
  /\ UNCHANGED <<gestureVars, engineVars, q, hold, hostVars>>

InitBeatSpec == InitGesture /\ InitEngine /\ InitBeat /\ InitCallbacks /\ q = QuantizeInput(0, "Piano", 0)

NextBeat == BeatFrame

SpecBeat == InitBeatSpec /\ [][NextBeat]_vars

\* C9: fed a wrist-y sequence that alternates down and up at a fixed frame
\* interval, so that beats fire with a fixed period T (two frames), the bpm
\* returned on every beat from the third beat on equals 60000 / T.
C9_BeatEstimatorStability ==
  (feed.regular /\ beat.fired /\ feed.beats >= 3) =>
    /\ ~beat.bpm.isNull
    /\ RatioEq(beat.bpm.val, Ratio(60000, 2 * feed.dt))

\* the third beat of a regular feed: two intervals of T = 500 ms in the window
C9_Witness ==
  /\ feed.regular /\ beat.fired /\ feed.beats = 3
  /\ feed.dt = 250
  /\ beatState.intervals = <<500, 500>>
  /\ ~beat.bpm.isNull

\* C13: a frame registers a beat (updates lastBeatTime) if and only if the
\* recorded direction is 'down' and the wrist moved up in this frame, its y
\* strictly smaller than the previous frame's y; in particular a frame with
\* unchanged y registers no beat.
C13_BeatOnlyOnDownUp ==
  [][ now' # now =>
        (beat'.fired <=> /\ beatState.lastY.has
                         /\ beatState.lastDirection = "down"
                         /\ beatState'.lastY.v < beatState.lastY.v) ]_vars


(***************************************************************************)
(* The beat estimator as a function of any timestamps                      *)
(***************************************************************************)
\* frames fed to the estimator: eight beats (seven intervals) take 17 frames,
\* and one more frame lets one of the intervals differ from the others
MaxTempoFrames == 18

\* the timestamp before the first frame, and the frame interval (ms)
TempoStarts == {0, -750}
TempoDt == 250

\* estimateBeat(hand, now, state) with the caller's timestamps
TempoStep(y) ==
  \E res \in {estimateBeat(y, now + TempoDt, beatState)} :
    /\ feed.frames < MaxTempoFrames
    /\ now' = now + TempoDt
    /\ beatState' = res.state
    /\ beat' = [fired |-> res.fired, bpm |-> res.bpm]
    /\ feed' = FeedAfter(y, TempoDt, res)

TempoFrame ==
  /\ \E y \in BeatYs : TempoStep(y)
  /\ UNCHANGED <<gestureVars, engineVars, q, hold, hostVars>>

InitTempo ==
  /\ InitGesture /\ InitEngine /\ InitCallbacks
  /\ q = QuantizeInput(0, "Piano", 0)
  /\ beatState = FreshBeatState
  /\ now \in TempoStarts
  /\ beat = [fired |-> FALSE, bpm |-> NoBpm]
  /\ feed = [frames |-> 0, dt |-> 0, regular |-> TRUE, beats |-> 0]
  /\ hold = NoHold

NextTempo == TempoFrame

SpecTempo == InitTempo /\ [][NextTempo]_vars

\* the most recent entries of a list, at most six, in arrival order
LastSix(seq) == IF Len(seq) > 6 THEN SubSeq(seq, Len(seq) - 5, Len(seq)) ELSE seq

\* C14: the intervals list never has more than 6 entries; a call that
\* returns a bpm has recorded one interval (the time since the last beat) at
\* the end of the list, dropping the oldest entry when that makes a seventh,
\* and any other call leaves the list as it was.
C14_WindowBounded ==
  [][ /\ Len(beatState'.intervals) <= 6
      /\ now' # now =>
           beatState'.intervals =
             IF beat'.bpm.isNull THEN beatState.intervals
             ELSE LastSix(Append(beatState.intervals,
                                 now' - beatState.lastBeatTime.v)) ]_vars

\* the seventh interval has just been recorded into a window whose entries
\* differ: the first of the seven is gone, the last is the new one
C14_Witness ==
  /\ beat.fired /\ feed.beats = 8
  /\ Len(beatState.intervals) = 6
  /\ beatState.intervals[1] # beatState.intervals[6]
  /\ beatState.lastBeatTime = Some(now)

\* C15: estimateBeat returns a bpm exactly on the frames where a beat fires
\* and at least one earlier beat has been recorded, whatever the timestamps,
\* and that bpm is 60000 divided by the mean of the intervals in the window;
\* on every other frame it returns null.
C15_BpmOutputRule ==
  [][ now' # now =>
        /\ ~beat'.bpm.isNull <=> (beat'.fired /\ feed.beats >= 1)
        /\ ~beat'.bpm.isNull =>
             RatioEq(beat'.bpm.val,
                     Ratio(60000 * Len(beatState'.intervals),
                           SumSeq(beatState'.intervals))) ]_vars


(***************************************************************************)
(* The host's frame callback (particles3d.ts, onFrame)                     *)
(***************************************************************************)
\* host events explored: frames, style changes and chord timer ticks
MaxHostSteps == 6

\* engine.bpm, engine.masterVolume and gestureEnergyHistory are written by the
\* callback too (intelligentBpmAdjustment, setVolume, setBpm); no gesture,
\* registry or note state depends on them and they are not modelled.

\* [...hands].sort((a, b) => a[0].x - b[0].x): stable insertion by wrist x
RECURSIVE InsertByX(_, _)
InsertByX(sorted, hand) ==
  IF sorted = << >> THEN <<hand>>
  ELSE IF At(hand, 0).x < At(Head(sorted), 0).x THEN <<hand>> \o sorted
  ELSE <<Head(sorted)>> \o InsertByX(Tail(sorted), hand)

RECURSIVE SortByX(_)
SortByX(hands) ==
  IF hands = << >> THEN << >>
  ELSE InsertByX(SortByX(SubSeq(hands, 1, Len(hands) - 1)), hands[Len(hands)])

\* An assignment that takes the first two hands in the tracker's order
AssignHandsUnsorted(hands) ==
  IF Len(hands) = 1
    THEN IF At(hands[1], 0).x < 50
           THEN [left |-> NoHand, right |-> hands[1]]
           ELSE [left |-> hands[1], right |-> NoHand]
  ELSE IF Len(hands) >= 2
    THEN [left |-> hands[2], right |-> hands[1]]
  ELSE [left |-> NoHand, right |-> NoHand]

\* hand assignment: [left, right]
AssignHands(hands) ==
  IF Len(hands) = 1
    THEN IF At(hands[1], 0).x < 50
           THEN [left |-> NoHand, right |-> hands[1]]
           ELSE [left |-> hands[1], right |-> NoHand]
  ELSE IF Len(hands) >= 2
    THEN [left |-> SortByX(hands)[2], right |-> SortByX(hands)[1]]
  ELSE [left |-> NoHand, right |-> NoHand]

RECURSIVE ApplyGesturesPlayOnly(_, _, _)
RECURSIVE ApplyGestures(_, _, _)

\* A host that plays the active events and lets the release events pass
ApplyGesturesPlayOnly(eng, evs, k) ==
  IF k > Len(evs) THEN eng
  ELSE CHOOSE out \in
         {ApplyGesturesPlayOnly(nx, evs, k + 1) :
            nx \in {IF evs[k].active /\ evs[k].note # NullNote
                      THEN playInstrument(eng, evs[k].instrument, evs[k].note)
                      ELSE eng}} : TRUE

\* fingerGestures.forEach: play the active events, release the others
ApplyGestures(eng, evs, k) ==
  IF k > Len(evs) THEN eng
  ELSE CHOOSE out \in
         {ApplyGestures(nx, evs, k + 1) :
            nx \in {IF evs[k].active /\ evs[k].note # NullNote
                      THEN playInstrument(eng, evs[k].instrument, evs[k].note)
                    ELSE IF ~evs[k].active
                      THEN releaseInstrument(eng, evs[k].instrument)
                    ELSE eng}} : TRUE

CallsOn(log, op, instrument) ==
  Cardinality({i \in 1..Len(log) : log[i].op = op /\ log[i].instrument = instrument})

ThumbOnly(l, r) ==
  /\ Qualifies("left_thumb", l, r)
  /\ \A s \in LeftSlots \ {"left_thumb"} : ~Qualifies(s, l, r)

\* the observer of left-thumb-only holds: a hold starts on a frame where only
\* the thumb qualifies while the slot is inactive (no Sustained Note, Drums
\* silent), goes on while that stays so frame after frame, and ends on the
\* frame where the hand is still there and the thumb no longer qualifies
HoldAfter(l, r, evs, log) ==
  IF ThumbOnly(l, r)
    THEN IF hold.run > 0
           THEN [hold EXCEPT !.run = hold.run + 1,
                             !.attacks = hold.attacks + CallsOn(log, "attack", "Drums")]
         ELSE IF "left_thumb" \notin DOMAIN sustainedFingers
                 /\ "Drums" \notin DOMAIN engine.notes
           THEN [NoHold EXCEPT
                   !.run = 1,
                   !.attacks = CallsOn(log, "attack", "Drums"),
                   !.startOk = \E i \in 1..Len(evs) :
                                  /\ ActivesFor(evs, "left_thumb") = {i}
                                  /\ evs[i].instrument = "Drums"]
         ELSE NoHold
  ELSE IF hold.run > 0 /\ HandPresent(l)
    THEN [hold EXCEPT !.run = 0, !.ended = TRUE, !.held = hold.run,
                      !.releases = CallsOn(log, "release", "Drums"),
                      !.offEvents = Cardinality(ReleasesFor(evs, "left_thumb"))]
  ELSE NoHold

\* interval between two frame callbacks, in ms
HostDts == {16}

\* A host that starts the tempo estimate afresh when the hands are gone
HostNoHandsResetTempo(dt) ==
  /\ now' = now + dt
  /\ engine' = releaseAll(ClearLog(engine))
  /\ gestures' = << >>
  /\ leftIn' = NoHand
  /\ rightIn' = NoHand
  /\ handsIn' = [hands |-> << >>, called |-> TRUE]
  /\ hold' = NoHold
  /\ beatState' = FreshBeatState
  /\ UNCHANGED <<sustainedFingers, gestureStability, handPositions, qualified, beat>>

\* onFrame(hands) with no hand: releaseAll and return; no event list is made
HostNoHands(dt) ==
  /\ now' = now + dt
  /\ engine' = releaseAll(ClearLog(engine))
  /\ gestures' = << >>
  /\ leftIn' = NoHand
  /\ rightIn' = NoHand
  /\ handsIn' = [hands |-> << >>, called |-> TRUE]
  /\ hold' = NoHold
  /\ UNCHANGED <<sustainedFingers, gestureStability, handPositions, qualified,
                 beatState, beat>>

\* onFrame(hands) with at least one hand
HostHands(hands, dt) ==
  LET a == AssignHands(hands) IN
  \E res \in {detectAllFingerGestures(a.left, a.right, sustainedFingers, gestureStability)} :
  \E eng \in {ApplyGestures(ClearLog(engine), res.ev, 1)} :
  \E b \in {estimateBeat(IF a.left # NoHand THEN At(a.left, 0).y ELSE 0, now + dt, beatState)} :
    /\ now' = now + dt
    /\ sustainedFingers' = res.sf
    /\ gestureStability' = res.gs
    /\ handPositions' =
         [leftHeight  |-> TrackHeight(handPositions.leftHeight, a.left),
          rightHeight |-> TrackHeight(handPositions.rightHeight, a.right)]
    /\ gestures' = res.ev
    /\ leftIn' = a.left
    /\ rightIn' = a.right
    /\ handsIn' = [hands |-> hands, called |-> TRUE]
    /\ qualified' = qualified \cup {s \in Slots : Qualifies(s, a.left, a.right)}
    /\ engine' = eng
    /\ hold' = HoldAfter(a.left, a.right, res.ev, eng.log)
    /\ IF a.left # NoHand
         THEN beatState' = b.state /\ beat' = [fired |-> b.fired, bpm |-> b.bpm]
         ELSE UNCHANGED <<beatState, beat>>

HostLeftWrist  == Pt(75, 80)
HostRightWrist == Pt(25, 80)
HostLeftPoses  == {Fist, ThumbUp}
HostRightPoses == {Fist, IndexLow, IndexHigh}

\* the hand lists the tracker delivers: one hand, or two with the rightmost
\* in the camera first, so that the sort has to swap them (SpecAssign goes
\* through the orders)
HostHandLists ==
  LET ls == {MakeHand(HostLeftWrist, p) : p \in HostLeftPoses}
      rs == {MakeHand(HostRightWrist, p) : p \in HostRightPoses}
  IN  {<<h>> : h \in ls \cup rs}
        \cup {<<l, r>> : l \in ls, r \in rs}

HostFrame ==
  /\ feed.frames < MaxHostSteps
  /\ \E dt \in HostDts :
       \/ HostNoHands(dt)
       \/ \E hands \in HostHandLists : HostHands(hands, dt)
  /\ feed' = [feed EXCEPT !.frames = feed.frames + 1]
  /\ UNCHANGED <<engineOp, lastRequest, q, pending, audio, asyncOp, landmarks, twin>>

\* the style selector: engine.setMusicStyle(style)
HostStyles == {"pop", "jazz"}

HostSetStyle ==
  /\ \E style \in HostStyles :
       /\ style # engine.style
       /\ engine' = setMusicStyle(ClearLog(engine), style)
  /\ feed.frames < MaxHostSteps
  /\ feed' = [feed EXCEPT !.frames = feed.frames + 1]
  /\ hold' = NoHold
  /\ UNCHANGED <<gestureVars, engineOp, lastRequest, q, beatState, now, beat, hostVars>>

\* the chord timer of startEnhancedMusicAI
HostChordTimer ==
  /\ Cardinality(DOMAIN engine.notes) >= 2
  /\ engine' = advanceChordProgression(ClearLog(engine))
  /\ feed.frames < MaxHostSteps
  /\ feed' = [feed EXCEPT !.frames = feed.frames + 1]
  /\ hold' = NoHold
  /\ UNCHANGED <<gestureVars, engineOp, lastRequest, q, beatState, now, beat, hostVars>>

InitHost == InitGesture /\ InitEngine /\ InitBeat /\ InitCallbacks /\ q = QuantizeInput(0, "Piano", 0)

NextHost == HostFrame \/ HostSetStyle \/ HostChordTimer

SpecHost == InitHost /\ [][NextHost]_vars

\* C4: while the left hand is present and only the thumb qualifies, frame after
\* frame, and then the thumb retracts: one note-on for left_thumb (Drums) at
\* the start of the hold, none on the held frames that follow, and one
\* note-off on the frame of the retraction.
C4_SingleFingerHold ==
  /\ hold.run >= 1 => (hold.attacks = 1 /\ hold.startOk)
  /\ hold.ended => /\ hold.attacks = 1 /\ hold.startOk
                   /\ hold.releases = 1
                   /\ hold.offEvents = 1

\* five held frames, then the retraction
C4_Witness ==
  /\ hold.ended /\ hold.held = 5
  /\ hold.attacks = 1 /\ hold.releases = 1
  /\ "Drums" \notin DOMAIN engine.notes
  /\ "left_thumb" \notin DOMAIN sustainedFingers

\* a step that is a frame callback given no hand at all
ZeroHandsFrame == now' # now /\ handsIn'.called /\ handsIn'.hands = << >>

\* C11: after any host frame that reports zero hands, no slot remains in the
\* Sustained Note registry and no instrument has an active note in the engine.
C11_ZeroHandsFullRelease ==
  [][ ZeroHandsFrame =>
        /\ sustainedFingers' = EmptyMap
        /\ engine'.notes = EmptyMap ]_vars

\* a step that is a frame callback in which the tracked (left) hand is absent
LeftAbsentFrame == now' # now /\ handsIn'.called /\ leftIn' = NoHand

\* C16: on every host frame where the left hand is absent (no hand at all, or
\* the right hand only) the beat estimator state is left as it was, and once
\* it has left its initial empty value it never is in that value again.
C16_DropoutKeepsTempoState ==
  [][ /\ LeftAbsentFrame => beatState' = beatState
      /\ beatState' = FreshBeatState => beatState = FreshBeatState ]_vars

\* the estimator has seen the left hand, and the last frame had no hand at all
C16_Witness ==
  /\ handsIn.called /\ handsIn.hands = << >>
  /\ leftIn = NoHand
  /\ beatState.lastY.has
  /\ beatState.lastDirection # Null


\* the instruments with an active note in the engine
Sounding == DOMAIN engine.notes

\* the instruments bound to the slots of the registry
RegistryInstruments == {FINGER_INSTRUMENTS[s] : s \in DOMAIN sustainedFingers}

\* C29: at the end of every host frame, whatever frames and setMusicStyle
\* calls came before, every instrument with an active note in the engine is
\* bound to a slot of the registry, and at the end of every frame that
\* reported at least one hand the two sets are equal.
C29_EngineFollowsRegistry ==
  [][ now' # now =>
        /\ Sounding' \subseteq RegistryInstruments'
        /\ handsIn'.hands # << >> => Sounding' = RegistryInstruments' ]_vars

\* a frame after a style change: the notes cut by setMusicStyle sound again,
\* one for each of the two held slots
C29_Witness ==
  /\ handsIn.hands # << >>
  /\ engine.style = "jazz"
  /\ Cardinality(Sounding) = 2
  /\ Sounding = RegistryInstruments

(***************************************************************************)
(* The hand assignment on its own                                          *)
(***************************************************************************)
\* most hands in one reported list
MaxHands == 3

\* the hands the tracker reports: fists at four wrist positions (hundredths),
\* and a second hand, thumb raised, at the midpoint
AssignXs == {10, 49, 50, 90}
AssignHandSet ==
  {MakeHand(Pt(x, 80), Fist) : x \in AssignXs} \cup {MakeHand(Pt(50, 80), ThumbUp)}

\* hand lists of one to MaxHands hands
AssignLists == UNION {[1..n -> AssignHandSet] : n \in 1..MaxHands}

AssignInputs == {[hands |-> hs, called |-> FALSE] : hs \in AssignLists}

\* the callback is handed a list: let left = null, right = null
AssignFeed ==
  /\ handsIn.called
  /\ handsIn' \in AssignInputs
  /\ leftIn' = NoHand
  /\ rightIn' = NoHand
  /\ UNCHANGED <<sustainedFingers, gestureStability, handPositions, gestures,
                 qualified, engineVars, q, beatVars, hold, pending, audio, asyncOp, landmarks, twin>>

\* the assignment of the list to the two sides
AssignCall ==
  /\ ~handsIn.called
  /\ \E a \in {AssignHands(handsIn.hands)} :
       /\ leftIn' = a.left
       /\ rightIn' = a.right
  /\ handsIn' = [handsIn EXCEPT !.called = TRUE]
  /\ UNCHANGED <<sustainedFingers, gestureStability, handPositions, gestures,
                 qualified, engineVars, q, beatVars, hold, pending, audio, asyncOp, landmarks, twin>>

InitAssign ==
  /\ InitGesture /\ InitEngine /\ InitBeat
  /\ q = QuantizeInput(0, "Piano", 0)
  /\ handsIn \in AssignInputs
  /\ pending = << >>
  /\ audio = "suspended"
  /\ asyncOp = NoAsyncOp
  /\ landmarks = NoLandmarks
  /\ twin = NoTwin

NextAssign == AssignFeed \/ AssignCall

SpecAssign == InitAssign /\ [][NextAssign]_vars

WristX(hand) == At(hand, 0).x

\* C20: one reported hand goes to one side only, the right side when its
\* wrist x is below 0.5 and the left side otherwise, and the other side is
\* absent; of two or more reported hands one with the smallest wrist x goes
\* to the right side and one with the smallest wrist x among the others to
\* the left side, so that both sides are present and hold different hands of
\* the list.
C20_HandAssignment ==
  handsIn.called =>
    LET hs == handsIn.hands IN
    /\ Len(hs) = 1 =>
         IF WristX(hs[1]) < 50
           THEN rightIn = hs[1] /\ leftIn = NoHand
           ELSE leftIn = hs[1] /\ rightIn = NoHand
    /\ Len(hs) >= 2 =>
         /\ leftIn # NoHand /\ rightIn # NoHand
         /\ \E i, j \in 1..Len(hs) :
              /\ i # j
              /\ rightIn = hs[i] /\ leftIn = hs[j]
              /\ \A k \in 1..Len(hs) : WristX(hs[i]) <= WristX(hs[k])
              /\ \A k \in 1..Len(hs) \ {i} : WristX(hs[j]) <= WristX(hs[k])

\* three hands reported with the leftmost one last: the sides are the third
\* and the first hand of the list, and the second hand is assigned to no side
C20_Witness ==
  /\ handsIn.called /\ Len(handsIn.hands) = 3
  /\ WristX(handsIn.hands[3]) < WristX(handsIn.hands[1])
  /\ WristX(handsIn.hands[1]) < WristX(handsIn.hands[2])
  /\ rightIn = handsIn.hands[3]
  /\ leftIn = handsIn.hands[1]


(***************************************************************************)
(* The host with an async frame callback (part_007, onFrame; the tracker   *)
(* loop of part_006 calls the callback and does not await it)              *)
(***************************************************************************)
\* frames the tracker delivers
MaxAsyncFrames == 3

\* the hand lists delivered: the left hand with the thumb raised or closed,
\* or the right hand with the index raised
AsyncHandLists ==
  {<<MakeHand(HostLeftWrist, ThumbUp)>>,
   <<MakeHand(HostLeftWrist, Fist)>>,
   <<MakeHand(HostRightWrist, IndexLow)>>}

\* the record of a callback step on frame k; newest is the latest frame whose
\* callback has updated gesture state or engine notes, stale marks an update
\* made for a frame older than that
AsyncOpAfter(kind, k, updates) ==
  [kind |-> kind, frame |-> k,
   newest |-> IF updates THEN Max(asyncOp.newest, k) ELSE asyncOp.newest,
   stale |-> updates /\ k < asyncOp.newest]

\* the callback from "Process gestures" to its end, for the hands it captured
AsyncProcess(left, right) ==
  \E res \in {detectAllFingerGestures(left, right, sustainedFingers, gestureStability)} :
  \E eng \in {ApplyGestures(ClearLog(engine), res.ev, 1)} :
    /\ sustainedFingers' = res.sf
    /\ gestureStability' = res.gs
    /\ handPositions' =
         [leftHeight  |-> TrackHeight(handPositions.leftHeight, left),
          rightHeight |-> TrackHeight(handPositions.rightHeight, right)]
    /\ gestures' = res.ev
    /\ leftIn' = left
    /\ rightIn' = right
    /\ qualified' = qualified \cup {s \in Slots : Qualifies(s, left, right)}
    /\ engine' = eng

\* the callback given no hand: releaseAll and return
AsyncNoHands ==
  /\ engine' = releaseAll(ClearLog(engine))
  /\ handsIn' = [hands |-> << >>, called |-> TRUE]
  /\ asyncOp' = AsyncOpAfter("nohands", feed.frames + 1, TRUE)
  /\ UNCHANGED <<gestureVars, pending, audio>>

\* the callback given hands: the assignment, then either the await of
\* Tone.start() (the callback is suspended with the hands it holds) or, with
\* the audio context running, the rest of the callback at once
AsyncHands(hands) ==
  LET a == AssignHands(hands)
      k == feed.frames + 1
  IN  /\ handsIn' = [hands |-> hands, called |-> TRUE]
      /\ IF audio # "running"
           THEN /\ pending' = Append(pending, [frame |-> k, left |-> a.left,
                                               right |-> a.right])
                /\ asyncOp' = AsyncOpAfter("suspend", k, FALSE)
                /\ UNCHANGED <<gestureVars, engine, audio>>
           ELSE /\ AsyncProcess(a.left, a.right)
                /\ asyncOp' = AsyncOpAfter("sync", k, TRUE)
                /\ UNCHANGED <<pending, audio>>

\* one frame of the tracker loop: cb(hands), not awaited
AsyncFrame ==
  /\ feed.frames < MaxAsyncFrames
  /\ \/ AsyncNoHands
     \/ \E hands \in AsyncHandLists : AsyncHands(hands)
  /\ feed' = [feed EXCEPT !.frames = feed.frames + 1]
  /\ UNCHANGED <<engineOp, lastRequest, q, beatState, now, beat, hold, landmarks, twin>>

\* the await of the oldest suspended callback returns, Tone.start() having
\* started the context or failed (the error is caught), and the callback
\* goes on with the hands of its own frame
AsyncResume ==
  /\ pending # << >>
  /\ \E started \in BOOLEAN :
       audio' = IF started THEN "running" ELSE audio
  /\ AsyncProcess(Head(pending).left, Head(pending).right)
  /\ pending' = Tail(pending)
  /\ asyncOp' = AsyncOpAfter("resume", Head(pending).frame, TRUE)
  /\ UNCHANGED <<engineOp, lastRequest, q, beatVars, hold, handsIn, landmarks, twin>>

\* the click handler of the document: Tone.start() on a user gesture
AsyncClick ==
  /\ audio # "running"
  /\ audio' = "running"
  /\ UNCHANGED <<gestureVars, engineVars, q, beatVars, hold, handsIn, pending, asyncOp, landmarks, twin>>

InitAsync == InitGesture /\ InitEngine /\ InitBeat /\ InitCallbacks /\ q = QuantizeInput(0, "Piano", 0)

NextAsync == AsyncFrame \/ AsyncResume \/ AsyncClick

SpecAsync == InitAsync /\ [][NextAsync]_vars

\* C18: frames are processed one at a time: gesture state and engine notes
\* are never updated for a frame after the callback of a newer frame has
\* updated them; in particular no note is started for a frame after a later
\* zero-hands frame has released everything.
C18_FramesOneAtATime == ~asyncOp.stale


(***************************************************************************)
(* The tracker loop (tracking.ts, two variants)                            *)
(***************************************************************************)
\* Accept hands with at least 10 landmarks
MIN_LANDMARKS == 10

\* numHands: 2
NUM_HANDS == 2

\* longest raw landmark list explored
MaxRawLen == 22

\* p => ({ x: p.x, y: p.y, z: p.z || 0 }); a raw z is number | undefined
ConvertPoint(p) == [x |-> p.x, y |-> p.y, z |-> IF Truthy(p.z) THEN p.z.v ELSE 0]

ConvertHand(lm) == [i \in 1..Len(lm) |-> ConvertPoint(lm[i])]

\* lm.slice(0, 21)
SliceFull(lm) == SubSeq(lm, 1, Min(Len(lm), LANDMARKS))

\* lm && lm.length ... : an entry of result.landmarks is a list or null
Usable(lm, n) == lm.has /\ Len(lm.v) >= n

RECURSIVE MapHands(_, _)
\* .filter(keep).map(lm => conv) over result.landmarks, in order
MapHands(lms, keep) ==
  IF lms = << >> THEN << >>
  ELSE IF keep[1] THEN <<lms[1]>> \o MapHands(Tail(lms), Tail(keep))
  ELSE MapHands(Tail(lms), Tail(keep))

\* A filter that lets longer hands through uncut
StrictFilterAtLeast(raw) ==
  LET keep == [i \in 1..Len(raw) |-> Usable(raw[i], LANDMARKS)]
      kept == MapHands(raw, keep)
  IN  [i \in 1..Len(kept) |-> ConvertHand(kept[i].v)]

\* (result.landmarks || []).filter(lm => lm && lm.length === 21).map(...)
StrictFilter(raw) ==
  LET keep == [i \in 1..Len(raw) |-> raw[i].has /\ Len(raw[i].v) = LANDMARKS]
      kept == MapHands(raw, keep)
  IN  [i \in 1..Len(kept) |-> ConvertHand(kept[i].v)]

RECURSIVE PadLandmarks(_)
\* while (padded.length < 21) padded.push({ x: last.x, y: last.y, z: last.z || 0 })
PadLandmarks(padded) ==
  IF Len(padded) < LANDMARKS
    THEN LET last == padded[Len(padded)]
         IN  PadLandmarks(Append(padded,
               [x |-> last.x, y |-> last.y, z |-> Some(ConvertPoint(last).z)]))
    ELSE padded

\* the lenient variant: the normal filter first, the padding one when it
\* yields no hand
LenientFilter(raw) ==
  LET keep  == [i \in 1..Len(raw) |-> Usable(raw[i], LANDMARKS)]
      kept  == MapHands(raw, keep)
      hands == [i \in 1..Len(kept) |-> ConvertHand(SliceFull(kept[i].v))]
      keep2 == [i \in 1..Len(raw) |-> Usable(raw[i], MIN_LANDMARKS)]
      kept2 == MapHands(raw, keep2)
  IN  IF Len(raw) > 0 /\ Len(hands) = 0
        THEN [i \in 1..Len(kept2) |->
                ConvertHand(SliceFull(PadLandmarks(kept2[i].v)))]
        ELSE hands

\* the hands handed to every callback by one pass of the loop
Delivered(variant, raw) ==
  IF variant = "strict" THEN StrictFilter(raw) ELSE LenientFilter(raw)

\* raw landmark z: every third point has none, every fifth has 0
RawZ(i) == IF i % 3 = 0 THEN None ELSE IF i % 5 = 0 THEN Some(0) ELSE Some(0 - i)

\* a raw hand of n points, told apart by the offset of its x coordinates
RawHand(n, off) == [i \in 1..n |-> [x |-> off + i, y |-> 100 - i, z |-> RawZ(i)]]

RawLens == {0, 9, MIN_LANDMARKS, 20, LANDMARKS, MaxRawLen}

\* a null entry of result.landmarks
NullLandmarks == [has |-> FALSE, v |-> << >>]

RawEntries == {NullLandmarks} \cup {Some(RawHand(n, 0)) : n \in RawLens}

RawResults == UNION {[1..n -> RawEntries] : n \in 0..NUM_HANDS}

TrackInputs == {[raw |-> r, variant |-> v] : r \in RawResults, v \in {"strict", "lenient"}}

\* handLandmarker.detectForVideo(video, now)
TrackDetect ==
  /\ handsIn.called
  /\ landmarks' \in TrackInputs
  /\ handsIn' = [hands |-> << >>, called |-> FALSE]
  /\ UNCHANGED <<gestureVars, engineVars, q, beatVars, hold, pending, audio, asyncOp, twin>>

\* the filter and for (const cb of callbacks) cb(hands)
TrackDeliver ==
  /\ ~handsIn.called
  /\ handsIn' = [hands |-> Delivered(landmarks.variant, landmarks.raw), called |-> TRUE]
  /\ UNCHANGED <<gestureVars, engineVars, q, beatVars, hold, pending, audio, asyncOp,
                 landmarks, twin>>

InitTrack ==
  /\ InitGesture /\ InitEngine /\ InitBeat
  /\ q = QuantizeInput(0, "Piano", 0)
  /\ handsIn = [hands |-> << >>, called |-> FALSE]
  /\ pending = << >>
  /\ audio = "suspended"
  /\ asyncOp = NoAsyncOp
  /\ landmarks \in TrackInputs
  /\ twin = NoTwin

NextTrack == TrackDetect \/ TrackDeliver

SpecTrack == InitTrack /\ [][NextTrack]_vars

\* the raw entries of at least n points, in order
RawWith(n) ==
  MapHands(landmarks.raw, [i \in 1..Len(landmarks.raw) |-> Usable(landmarks.raw[i], n)])

RawExact ==
  MapHands(landmarks.raw, [i \in 1..Len(landmarks.raw) |->
     landmarks.raw[i].has /\ Len(landmarks.raw[i].v) = LANDMARKS])

\* delivered hand h is raw hand lm: its first points are lm's, numbers for z,
\* and any points past lm's end repeat lm's last point
CutOrPadded(h, lm) ==
  /\ Len(h) = LANDMARKS
  /\ \A i \in 1..LANDMARKS :
       LET src == lm[Min(i, Len(lm))]
       IN  /\ h[i].x = src.x /\ h[i].y = src.y
           /\ h[i].z = (IF src.z.has THEN src.z.v ELSE 0)

\* C22: every hand delivered to the frame callbacks has exactly 21 landmarks.
\* The strict variant delivers the raw hands of exactly 21 landmarks and drops
\* the others; the lenient variant delivers the raw hands of 21 or more, cut
\* to 21, and only when there is none, the raw hands of 10 or more, padded to
\* 21 with copies of their last point, dropping those below 10.
C22_DeliveredHandsFull ==
  handsIn.called =>
    LET out  == handsIn.hands
        from == IF landmarks.variant = "strict" THEN RawExact
                ELSE IF Len(RawWith(LANDMARKS)) > 0 THEN RawWith(LANDMARKS)
                ELSE RawWith(MIN_LANDMARKS)
    IN  /\ \A i \in 1..Len(out) : Len(out[i]) = LANDMARKS
        /\ Len(out) = Len(from)
        /\ \A i \in 1..Len(out) : CutOrPadded(out[i], from[i].v)

\* the lenient variant padded a 10-point hand and dropped a 9-point one
C22_Witness ==
  /\ handsIn.called
  /\ landmarks.variant = "lenient"
  /\ Len(landmarks.raw) = 2
  /\ landmarks.raw[1].has /\ landmarks.raw[2].has
  /\ Len(landmarks.raw[1].v) = 9
  /\ Len(landmarks.raw[2].v) = MIN_LANDMARKS
  /\ Len(handsIn.hands) = 1
  /\ handsIn.hands[1][LANDMARKS] = [x |-> 10, y |-> 90, z |-> 0]

(***************************************************************************)
(* Two detectors side by side (detectAllFingerGestures, two GestureStates) *)
(***************************************************************************)
\* frames fed to the pair
MaxTwinFrames == 2

IndexLowThumbUp == <<FP("up", 50), FP("up", 0), Curl, Curl, Curl>>
MiddleUp        == <<Curl, Curl, FP("up", 50), Curl, Curl>>

TwinSlots == {"left_index", "right_middle"}
TwinLeft  == {MakeHand(DetectWrist, p) : p \in {Fist, IndexLow, IndexLowThumbUp}}
TwinRight == {ShortRight} \cup {MakeHand(DetectWrist, p) : p \in {MiddleUp, Chord}}

\* what a frame gives slot s of its own: whether its hand is there and, if
\* so, the tip and base of its finger and the wrist
OwnInput(s, l, r) ==
  LET hand == HandOf(s, l, r)
      f    == SlotIndex(s)
  IN  IF HandPresent(hand)
        THEN <<At(hand, FINGERTIP_INDICES[f + 1]), At(hand, FINGER_BASE_INDICES[f + 1]),
               At(hand, 0)>>
        ELSE << >>

\* one frame for each of the two states: the frames agree on what they give
\* the watched slot and are free in everything else
TwinFrame ==
  /\ feed.frames < MaxTwinFrames
  /\ \E l \in TwinLeft, r \in TwinRight, l2 \in TwinLeft, r2 \in TwinRight :
       /\ OwnInput(twin.slot, l, r) = OwnInput(twin.slot, l2, r2)
       /\ DetectStep(l, r)
       /\ \E res \in {detectAllFingerGestures(l2, r2, twin.sf, twin.gs)} :
            twin' = [slot |-> twin.slot, sf |-> res.sf, gs |-> res.gs, ev |-> res.ev,
                     left |-> l2, right |-> r2]
  /\ feed' = [feed EXCEPT !.frames = feed.frames + 1]
  /\ UNCHANGED <<engineVars, q, beatState, now, beat, hold, handsIn, pending, audio,
                 asyncOp, landmarks>>

InitTwin ==
  /\ InitGesture /\ InitEngine /\ InitBeat
  /\ q = QuantizeInput(0, "Piano", 0)
  /\ handsIn = [hands |-> << >>, called |-> FALSE]
  /\ pending = << >>
  /\ audio = "suspended"
  /\ asyncOp = NoAsyncOp
  /\ landmarks = NoLandmarks
  /\ twin \in {TwinOf(s) : s \in TwinSlots}

NextTwin == TwinFrame

SpecTwin == InitTwin /\ [][NextTwin]_vars

\* the entry of slot s in a Map, as a list of none or one
EntryOf(m, s) == IF s \in DOMAIN m THEN <<m[s]>> ELSE << >>

EventsOf(evs, s) == SelectSeq(evs, LAMBDA e : e.finger = s)

\* C27: two runs that give a slot the same inputs of its own (tip, base,
\* wrist, hand presence) on every frame, from the same state of the slot,
\* yield the same events for the slot and the same stability and registry
\* entries of the slot, whatever the other nine slots are given.
C27_SlotIndependence ==
  /\ EventsOf(gestures, twin.slot) = EventsOf(twin.ev, twin.slot)
  /\ EntryOf(sustainedFingers, twin.slot) = EntryOf(twin.sf, twin.slot)
  /\ EntryOf(gestureStability, twin.slot) = EntryOf(twin.gs, twin.slot)

\* left_index is held in both runs while the runs differ in the left thumb,
\* in the right hand and in the other slots' entries
C27_Witness ==
  /\ twin.slot = "left_index"
  /\ "left_index" \in DOMAIN sustainedFingers
  /\ ActivesFor(twin.ev, "left_index") # {}
  /\ leftIn # twin.left
  /\ rightIn # twin.right
  /\ DOMAIN sustainedFingers # DOMAIN twin.sf
  /\ gestureStability # twin.gs

====
